---- MODULE Spec2Model ----
(***************************************************************************)
(* State-machine model of the SAF-AR timed reveal sequencer                *)
(* (src/unnamed/part_002: ModelManager, loadTestModels, initializeAR,      *)
(* startAR, stopAR).                                                       *)
(*                                                                         *)
(* Time is counted in abstract units.  A pending setTimeout/setInterval is *)
(* a record in the sequence `timers` that carries its remaining time; the  *)
(* action Tick lets one unit pass and is enabled only when every due timer *)
(* has fired, so a callback runs exactly `delay` units after it was        *)
(* scheduled, and due callbacks run in creation order.                     *)
(*                                                                         *)
(* The configuration list of getModelConfigs is an input: Init draws it    *)
(* from ConfigLists.  A model path is the index of its entry in the list.  *)
(* A scene-graph object (model or spotlight) is named <<id, path>>: the    *)
(* object created for entry `path` by the run-th execution of startAR,     *)
(* with id = run when loadTestModels created it and id = -run when         *)
(* initializeAR created it.                                                *)
(***************************************************************************)
EXTENDS Integers, Sequences, FiniteSets, TLC

\* ---- bounds -------------------------------------------------------------
MaxStarts == 2          \* Start clicks in one behaviour
MaxToggles == 1         \* changes of the test-mode checkbox in one behaviour
ClipLen == 2            \* duration of an animation clip, in time units

\* ---- program constants (scaled to the model's time unit) ----------------
CycleInterval == 4      \* ModelManager.cycleInterval
SpotlightExtra == 1     \* test mode: spotlight delay = config.delay + 500

Entry(d, v, e, b, a) ==
  [delay |-> d, visible |-> v, enabled |-> e, ball |-> b, anim |-> a]

\* Configuration lists the model is run on.  ball: the path includes
\* 'dis-ball' (no spotlight); anim: the asset file carries animation clips.
ConfigLists ==
  { << Entry(2, FALSE, TRUE, FALSE, TRUE), Entry(1, FALSE, TRUE, FALSE, TRUE) >>,
    << Entry(0, FALSE, TRUE, FALSE, TRUE), Entry(1, FALSE, TRUE, TRUE, FALSE) >>,
    << Entry(1, FALSE, FALSE, FALSE, TRUE), Entry(1, TRUE, TRUE, FALSE, TRUE) >>,
    << Entry(CycleInterval + 1, FALSE, TRUE, FALSE, TRUE),
       Entry(1, FALSE, TRUE, FALSE, TRUE) >>,
    << Entry(1, FALSE, TRUE, FALSE, TRUE), Entry(1, FALSE, TRUE, FALSE, TRUE) >> }

NumEntries == Len(CHOOSE c \in ConfigLists : TRUE)   \* every list has this length
MaxSince == CycleInterval + 2     \* cap of the history stopwatch ar[r].since
Paths == 1..NumEntries
RunIds == 1..MaxStarts

NoAction == [paused |-> TRUE, time |-> -1]      \* actions[path] undefined

VARIABLES
  config,         \* getModelConfigs(): the static configuration list
  testMode,       \* global testMode
  mindarThree,    \* global mindarThree: 0 = null, r = the object created by run r
  scene,          \* global scene: 0 = undefined/null, r = test scene of run r
  renderer,       \* global renderer: 0 = undefined/null, r = renderer of run r
  animLoop,       \* some animation loop (requestAnimationFrame/setAnimationLoop) runs
  models,         \* ModelManager.models: path -> 0 (absent) or the id of the object
  modelKeys,      \* Object.keys(ModelManager.models), in insertion order
  mixers,         \* paths that have an entry in ModelManager.mixers
  actions,        \* ModelManager.actions: path -> state of the model's clip actions
  objVisible,     \* model objects <<run, path>> whose .visible is true (objects of
                  \* a scene graph that is still referred to)
  spotVisible,    \* spotlight objects <<run, path>> whose .visible is true
  attached,       \* model objects <<run, path>> added to a scene or anchor group
  timers,         \* pending setTimeout / setInterval callbacks, in creation order
  cycleTimer,     \* ModelManager.cycleTimer: 0 = null, else the interval's id
  resetChain,     \* runs whose loadTestModels wrapped ModelManager.resetModels
  nRuns,          \* number of startAR executions so far
  pc,             \* run -> position of that execution of startAR
  idx,            \* run -> configuration entry whose load is awaited
  spotlights,     \* run -> the run's local `spotlights` array (paths)
  ar,             \* run -> state of the run's MindAR object and sequencer closure
  errorPlanes,    \* <<s, run, path>>: displayErrorMessage added to scene s a
                  \* placeholder plane for the entry `path` that run failed to load
  startDisabled,  \* startButton.disabled
  stopDisabled,   \* stopButton.disabled
  loading,        \* loading overlay shown
  shown,          \* history: path -> reveal callbacks run on the registered model
                  \*          since its reveals were last scheduled (capped at 2)
  failed,         \* history, since the latest click on Start or Stop:
                  \*   <<run, path, phase>>: that awaited loadModel rejected;
                  \*   <<run, 0, "camera" | "target" | "engine">>: that await of
                  \*   startAR's AR branch rejected; <<run, 0, "declined">>: the
                  \*   fallback prompt was answered with Cancel
  nStops,         \* history: number of completed stopAR executions
  nToggles,       \* history: number of changes of the test-mode checkbox
  ld,             \* one call of ModelManager.loadModel: its arguments and outcome
  mt,             \* src/js/main.js: one execution of its loadTestModels
  viewer          \* the model viewer page (src/model-test/model-viewer.js)

heapVars == << models, modelKeys, mixers, actions, objVisible, spotVisible,
               timers, cycleTimer, resetChain, shown >>
\* what no handler of the application page writes
static == << config, ld, mt, viewer >>
\* the state of the application page
progVars == << testMode, mindarThree, scene, renderer, animLoop, models,
               modelKeys, mixers, actions, objVisible, spotVisible, attached,
               timers, cycleTimer, resetChain, nRuns, pc, idx, spotlights, ar,
               errorPlanes, startDisabled, stopDisabled, loading, shown, failed,
               nStops, nToggles >>
vars == << ld, mt, viewer, config, testMode, mindarThree, scene, renderer, animLoop, models,
           modelKeys, mixers, actions, objVisible, spotVisible, attached, timers,
           cycleTimer, resetChain, nRuns, pc, idx, spotlights, ar, errorPlanes,
           startDisabled, stopDisabled, loading, shown, failed, nStops, nToggles >>

\* ---- the mutable state ModelManager and the timer callbacks work on -----
Heap ==
  [ models |-> models, modelKeys |-> modelKeys, mixers |-> mixers,
    actions |-> actions, objVisible |-> objVisible, spotVisible |-> spotVisible,
    timers |-> timers, cycleTimer |-> cycleTimer, resetChain |-> resetChain,
    shown |-> shown ]

SetHeap(h) ==
  /\ models' = h.models
  /\ modelKeys' = h.modelKeys
  /\ mixers' = h.mixers
  /\ actions' = h.actions
  /\ objVisible' = h.objVisible
  /\ spotVisible' = h.spotVisible
  /\ timers' = h.timers
  /\ cycleTimer' = h.cycleTimer
  /\ resetChain' = h.resetChain
  /\ shown' = h.shown

\* kind: "show"     ModelManager.showModel's timeout          (path)
\*       "spot"     loadTestModels' spotlight timeout         (run, path)
\*       "seqModel" startAnimationSequence's model timeout    (run, path, obj)
\*       "seqSpot"  startAnimationSequence's spotlight timeout (run, path)
\*       "cycle"    startResetCycle's interval                (run = interval id)
\* epoch: history, the number of completed stopAR executions at creation
\* obj of a "cycle" timer: history, 1 once the interval has fired
Timer(k, r, p, o, d, e) ==
  [kind |-> k, run |-> r, path |-> p, obj |-> o, rem |-> d, epoch |-> e]

\* clearInterval(id)
ClearInterval(ts, id) == SelectSeq(ts, LAMBDA t : ~(t.kind = "cycle" /\ t.run = id))

\* ---- three.js AnimationAction, one record for the clips of a model ------
ActionNew == [paused |-> FALSE, time |-> 0]                \* mixer.clipAction(clip)
ActionReset(a) == [paused |-> FALSE, time |-> 0]           \* action.reset()
ActionPause(a) == [a EXCEPT !.paused = TRUE]               \* action.paused = true
ActionUnpause(a) == [a EXCEPT !.paused = FALSE]            \* action.paused = false
\* mixer.update(delta) on a LoopOnce / clampWhenFinished action
ActionUpdate(a, delta) ==
  IF a.paused THEN a
  ELSE IF a.time + delta >= ClipLen THEN [paused |-> TRUE, time |-> ClipLen]
       ELSE [a EXCEPT !.time = @ + delta]

\* ---- ModelManager -------------------------------------------------------
\* fault model: a reveal scheduled one cycle interval too late
showModelLate(h, path, delay, tm, mind, e) ==
  IF h.models[path] = 0 THEN h
  ELSE IF ~tm /\ mind # 0 THEN h
  ELSE [h EXCEPT !.timers =
          Append(@, Timer("show", 0, path, 0, delay + CycleInterval, e))]

\* showModel(path, delay): schedules the reveal; tm, mind are the globals
showModel(h, path, delay, tm, mind, e) ==
  IF h.models[path] = 0 THEN h
  ELSE IF ~tm /\ mind # 0 THEN h
  ELSE [h EXCEPT !.timers = Append(@, Timer("show", 0, path, 0, delay, e))]

\* fault model: a reveal that resumes the clips where they were
showModelCallbackNoReset(h, path) ==
  IF h.models[path] = 0 THEN h
  ELSE [h EXCEPT !.objVisible = @ \cup {<<h.models[path], path>>},
                 !.actions[path] = IF @ = NoAction THEN @ ELSE ActionUnpause(@),
                 !.shown[path] = IF @ < 2 THEN @ + 1 ELSE @]

\* the callback showModel hands to setTimeout; this.models[path] is read when
\* it runs, and the callback throws when the path is no longer registered
showModelCallback(h, path) ==
  IF h.models[path] = 0 THEN h
  ELSE [h EXCEPT !.objVisible = @ \cup {<<h.models[path], path>>},
                 !.actions[path] = IF @ = NoAction THEN @
                                   ELSE ActionUnpause(ActionReset(@)),
                 !.shown[path] = IF @ < 2 THEN @ + 1 ELSE @]

\* fault model: a hide that also rewinds the clips
hideModelRewind(h, path) ==
  IF h.models[path] = 0 THEN h
  ELSE [h EXCEPT !.objVisible = @ \ {<<h.models[path], path>>},
                 !.actions[path] = IF @ = NoAction THEN @
                                   ELSE ActionPause(ActionReset(@))]

hideModel(h, path) ==
  IF h.models[path] = 0 THEN h
  ELSE [h EXCEPT !.objVisible = @ \ {<<h.models[path], path>>},
                 !.actions[path] = IF @ = NoAction THEN @ ELSE ActionPause(@)]

hideAllModels(h) ==
  LET keys == h.modelKeys
      f[i \in 0..Len(keys)] == IF i = 0 THEN h ELSE hideModel(f[i - 1], keys[i])
  IN f[Len(keys)]

\* the resetModels method of the ModelManager literal
originalResetModels(h, cfg, tm, mind, e) ==
  LET keys == h.modelKeys
      h1 == hideAllModels(h)
      h2 == [h1 EXCEPT !.actions =
               [p \in Paths |->
                  IF h1.models[p] # 0 /\ p \in h1.mixers /\ cfg[p].anim
                    THEN ActionReset(ActionPause(ActionNew))
                    ELSE h1.actions[p]]]
      f[i \in 0..Len(keys)] ==
        IF i = 0 THEN [h2 EXCEPT !.shown = [p \in Paths |-> 0]]
        ELSE showModel(f[i - 1], keys[i], cfg[keys[i]].delay, tm, mind, e)
  IN f[Len(keys)]

\* ModelManager.resetModels after n wrappers were installed by loadTestModels:
\* wrapper n calls wrapper n-1, then hides and re-schedules the spotlights of
\* the run that installed it
RECURSIVE resetModels(_, _, _, _, _, _, _)
resetModels(h, n, spots, cfg, tm, mind, e) ==
  IF n = 0 THEN originalResetModels(h, cfg, tm, mind, e)
  ELSE LET r == h.resetChain[n]
           g == resetModels(h, n - 1, spots, cfg, tm, mind, e)
           sp == spots[r]
       IN [g EXCEPT
             !.spotVisible = @ \ {<<r, sp[i]>> : i \in 1..Len(sp)},
             !.timers = @ \o [i \in 1..Len(sp) |->
                Timer("spot", r, sp[i], 0, cfg[sp[i]].delay + SpotlightExtra, e)]]

\* fault model: cycleTimer is set to null but clearInterval is not called
stopResetCycleLeak(h) ==
  IF h.cycleTimer # 0 THEN [h EXCEPT !.cycleTimer = 0] ELSE h

stopResetCycle(h) ==
  IF h.cycleTimer # 0
    THEN [h EXCEPT !.timers = ClearInterval(@, h.cycleTimer),
                   !.cycleTimer = 0]
    ELSE h

startResetCycle(h, id, e) ==
  LET h1 == IF h.cycleTimer # 0
              THEN [h EXCEPT !.timers = ClearInterval(@, h.cycleTimer)]
              ELSE h
  IN [h1 EXCEPT !.cycleTimer = id,
                !.timers = Append(@, Timer("cycle", id, 0, 0, CycleInterval, e))]

clearModels(h) ==
  LET h1 == stopResetCycle(h)
  IN [h1 EXCEPT !.mixers = {},
                !.actions = [p \in Paths |-> NoAction],
                !.models = [p \in Paths |-> 0],
                !.modelKeys = << >>,
                !.shown = [p \in Paths |-> 0]]

\* loadModel(path, {visible, delay}) when the fetch and the loader succeed;
\* r is the id of the object it creates
loadModel(h, r, path, visible, cfg, tm, mind, e) ==
  LET h1 == [h EXCEPT
               !.objVisible = IF visible THEN @ \cup {<<r, path>>}
                              ELSE @ \ {<<r, path>>},
               !.mixers = IF cfg[path].anim THEN @ \cup {path} ELSE @,
               !.actions[path] = IF cfg[path].anim
                                   THEN ActionPause(ActionNew)
                                   ELSE @,
               !.models[path] = r,
               !.shown[path] = 0,
               !.modelKeys = IF \E i \in 1..Len(@) : @[i] = path
                               THEN @ ELSE Append(@, path)]
  IN IF cfg[path].delay > 0 /\ ~visible
       THEN showModel(h1, path, cfg[path].delay, tm, mind, e)
       ELSE h1

\* updateAnimations(delta): every mixer is updated
updateAnimations(h, delta) ==
  [h EXCEPT !.actions = [p \in Paths |->
      IF p \in h.mixers /\ h.actions[p] # NoAction
        THEN ActionUpdate(h.actions[p], delta) ELSE h.actions[p]]]

\* renderer.render(scene, camera): what the call draws of the heap it is given,
\* the visible objects and the pose of every clip
render(h) == [visible |-> h.objVisible \cup h.spotVisible,
              pose |-> [p \in Paths |-> IF h.actions[p] = NoAction THEN 0
                                        ELSE h.actions[p].time]]

\* fault model: a frame callback that renders before it updates the mixers
animateRenderFirst(h, delta) ==
  [heap |-> updateAnimations(h, delta), drawn |-> render(h)]

\* one frame callback (animate / the setAnimationLoop callback):
\* ModelManager.updateAnimations(delta), then renderer.render(scene, camera)
animate(h, delta) ==
  LET h1 == updateAnimations(h, delta)
  IN [heap |-> h1, drawn |-> render(h1)]

\* ---- loadTestModels -----------------------------------------------------
\* fault model: the loops do not skip the entries with enabled: false
NextEnabledAny(cfg, i) ==
  IF i < Len(cfg) THEN i + 1 ELSE 0

\* the next enabled entry after entry i, 0 when there is none
NextEnabled(cfg, i) ==
  IF \E j \in (i + 1)..Len(cfg) : cfg[j].enabled
    THEN CHOOSE j \in (i + 1)..Len(cfg) :
           cfg[j].enabled /\ \A k \in (i + 1)..(j - 1) : ~cfg[k].enabled
    ELSE 0

\* loadTestModels after its loop: spotlight timeouts, the reset cycle, and the
\* wrapper around ModelManager.resetModels
finishLoadTestModels(h, r, sp, cfg, e) ==
  LET h1 == [h EXCEPT !.timers = @ \o [i \in 1..Len(sp) |->
               Timer("spot", r, sp[i], 0, cfg[sp[i]].delay + SpotlightExtra, e)]]
      h2 == startResetCycle(h1, r, e)
  IN [h2 EXCEPT !.resetChain = Append(@, r)]

\* startAR after its branches: loading screen hidden, button states updated
StartCompleted(r) ==
  /\ pc' = [pc EXCEPT ![r] = "done"]
  /\ idx' = [idx EXCEPT ![r] = 0]
  /\ loading' = FALSE
  /\ startDisabled' = TRUE
  /\ stopDisabled' = FALSE

\* fault model: the catch block enables Start and leaves Stop as it is
StartFailedKeepsStop(r) ==
  /\ pc' = [pc EXCEPT ![r] = "done"]
  /\ idx' = [idx EXCEPT ![r] = 0]
  /\ loading' = FALSE
  /\ startDisabled' = FALSE
  /\ stopDisabled' = FALSE

\* startAR's catch block: alert, button states reset
StartFailed(r) ==
  /\ pc' = [pc EXCEPT ![r] = "done"]
  /\ idx' = [idx EXCEPT ![r] = 0]
  /\ loading' = FALSE
  /\ startDisabled' = FALSE
  /\ stopDisabled' = TRUE

\* initTestScene() followed by the start of loadTestModels, on heap h
BeginTestMode(r, h) ==
  LET first == NextEnabled(config, 0) IN
  /\ scene' = r
  /\ renderer' = r
  /\ animLoop' = TRUE
  /\ spotlights' = [spotlights EXCEPT ![r] = << >>]
  /\ IF first # 0
       THEN /\ SetHeap(h)
            /\ pc' = [pc EXCEPT ![r] = "loadTest"]
            /\ idx' = [idx EXCEPT ![r] = first]
            /\ loading' = TRUE
            /\ UNCHANGED << startDisabled, stopDisabled >>
       ELSE /\ SetHeap(finishLoadTestModels(h, r, << >>, config, nStops))
            /\ StartCompleted(r)

\* history of a failure of the AR branch and of the answer to the prompt
Failure(r, what, accept) ==
  {<<r, 0, what>>} \cup (IF accept THEN {} ELSE {<<r, 0, "declined">>})

\* fault model: the catch block rethrows without offering the fallback
FailARNoFallback(r, accept, h) ==
  /\ SetHeap(h)
  /\ StartFailed(r)
  /\ UNCHANGED << testMode, scene, renderer, animLoop, spotlights >>

\* the catch block of startAR's AR branch: confirm(), then test mode or rethrow
FailAR(r, accept, h) ==
  IF accept
    THEN /\ testMode' = TRUE
         /\ BeginTestMode(r, h)
    ELSE /\ SetHeap(h)
         /\ StartFailed(r)
         /\ UNCHANGED << testMode, scene, renderer, animLoop, spotlights >>

\* fault model: the try/catch encloses the loop, a rejected load leaves it
AfterTestLoadAbort(cfg, i, ok, sceneOk) ==
  IF ok /\ sceneOk THEN NextEnabled(cfg, i) ELSE 0

\* the entry loadTestModels goes on with when the load of entry i has settled
\* (0: the loop is left): the try/catch is inside the loop, so a rejected load
\* goes on like a resolved one, unless displayErrorMessage itself throws
AfterTestLoad(cfg, i, ok, sceneOk) ==
  IF sceneOk THEN NextEnabled(cfg, i) ELSE 0

\* one iteration of loadTestModels' loop: the awaited loadModel settles
TestLoad(r, ok) ==
  /\ pc[r] = "loadTest"
  /\ LET i == idx[r]
         sceneOk == scene # 0
         h1 == IF ok THEN loadModel(Heap, r, i, config[i].visible, config,
                                    testMode, mindarThree, nStops)
               ELSE Heap
         added == ok /\ sceneOk
         sp1 == IF added /\ ~config[i].ball
                  THEN Append(spotlights[r], i) ELSE spotlights[r]
         nxt == AfterTestLoad(config, i, ok, sceneOk)
     IN /\ spotlights' = [spotlights EXCEPT ![r] = sp1]
        /\ attached' = IF added THEN attached \cup {<<r, i>>} ELSE attached
        /\ errorPlanes' = IF ~ok /\ sceneOk THEN errorPlanes \cup {<<scene, r, i>>}
                          ELSE errorPlanes
        /\ IF nxt # 0
             THEN /\ SetHeap(h1)
                  /\ idx' = [idx EXCEPT ![r] = nxt]
                  /\ UNCHANGED << pc, loading, startDisabled, stopDisabled >>
             ELSE /\ SetHeap(IF sceneOk
                               THEN finishLoadTestModels(h1, r, sp1, config, nStops)
                               ELSE h1)
                  /\ StartCompleted(r)
  /\ failed' = IF ok THEN failed ELSE failed \cup {<<r, idx[r], "test">>}
  /\ UNCHANGED << static, testMode, mindarThree, scene, renderer, animLoop,
                  nRuns, ar, nStops, nToggles >>

TestLoadOk == \E r \in RunIds : TestLoad(r, TRUE)
TestLoadFail == \E r \in RunIds : TestLoad(r, FALSE)

\* ---- initializeAR: the tracking-driven sequencer ------------------------
ARObj(r) == 0 - r      \* id of the objects initializeAR creates in run r

NewAR == [handlers |-> FALSE, cleanup |-> FALSE, engine |-> "off",
          seqStarted |-> FALSE, tracked |-> FALSE, text |-> FALSE, since |-> 0]

IsSeqTimerOf(t, r) == t.kind \in {"seqModel", "seqSpot"} /\ t.run = r

\* timeoutIds.forEach(clearTimeout) of run r's sequencer
ClearTimeoutIds(ts, r) == SelectSeq(ts, LAMBDA t : ~IsSeqTimerOf(t, r))

\* fault model: every reveal of startAnimationSequence is scheduled with
\* delay 0
startAnimationSequenceNoDelay(h, r, sp, cfg, e) ==
  LET keys == h.modelKeys
      h1 == [h EXCEPT
               !.timers = ClearTimeoutIds(@, r),
               !.objVisible = @ \ {<<h.models[p], p>> : p \in {q \in Paths : h.models[q] # 0}},
               !.actions = [p \in Paths |->
                              IF h.models[p] # 0 /\ h.actions[p] # NoAction
                                THEN ActionReset(ActionPause(h.actions[p]))
                                ELSE h.actions[p]],
               !.spotVisible = @ \ {<<r, sp[i]>> : i \in 1..Len(sp)},
               !.shown = [p \in Paths |-> 0]]
  IN [h1 EXCEPT
        !.timers = (@ \o [i \in 1..Len(keys) |->
                      Timer("seqModel", r, keys[i], h.models[keys[i]], 0, e)])
                   \o [i \in 1..Len(sp) |->
                      Timer("seqSpot", r, sp[i], 0, 0, e)]]

\* the body of startAnimationSequence after its early return; sp is the
\* spotlights array of the run
startAnimationSequence(h, r, sp, cfg, e) ==
  LET keys == h.modelKeys
      h1 == [h EXCEPT
               !.timers = ClearTimeoutIds(@, r),
               !.objVisible = @ \ {<<h.models[p], p>> : p \in {q \in Paths : h.models[q] # 0}},
               !.actions = [p \in Paths |->
                              IF h.models[p] # 0 /\ h.actions[p] # NoAction
                                THEN ActionReset(ActionPause(h.actions[p]))
                                ELSE h.actions[p]],
               !.spotVisible = @ \ {<<r, sp[i]>> : i \in 1..Len(sp)},
               !.shown = [p \in Paths |-> 0]]
  IN [h1 EXCEPT
        !.timers = (@ \o [i \in 1..Len(keys) |->
                      Timer("seqModel", r, keys[i], h.models[keys[i]],
                            cfg[keys[i]].delay, e)])
                   \o [i \in 1..Len(sp) |->
                      Timer("seqSpot", r, sp[i], 0, cfg[sp[i]].delay, e)]]

\* fault model: stopAnimationSequence hides everything but does not clear
\* its timeouts
stopAnimationSequenceKeepsTimers(h, r, sp) ==
  [h EXCEPT
     !.objVisible = @ \ {<<h.models[p], p>> : p \in {q \in Paths : h.models[q] # 0}},
     !.spotVisible = @ \ {<<r, sp[i]>> : i \in 1..Len(sp)}]

\* the body of stopAnimationSequence after its early return
stopAnimationSequence(h, r, sp) ==
  [h EXCEPT
     !.timers = ClearTimeoutIds(@, r),
     !.objVisible = @ \ {<<h.models[p], p>> : p \in {q \in Paths : h.models[q] # 0}},
     !.actions = [p \in Paths |->
                    IF h.models[p] # 0 /\ h.actions[p] # NoAction
                      THEN ActionReset(ActionPause(h.actions[p]))
                      ELSE h.actions[p]],
     !.spotVisible = @ \ {<<r, sp[i]>> : i \in 1..Len(sp)}]

\* the model timeout of startAnimationSequence; `started` is the closure's
\* animationSequenceStarted, t.obj the model captured when it was scheduled
seqModelCallback(h, t, started) ==
  IF ~started THEN h
  ELSE [h EXCEPT !.objVisible = @ \cup {<<t.obj, t.path>>},
                 !.actions[t.path] = IF @ = NoAction THEN @
                                     ELSE ActionUnpause(ActionReset(@)),
                 !.shown[t.path] = IF h.models[t.path] = t.obj /\ @ < 2
                                     THEN @ + 1 ELSE @]

seqSpotCallback(h, t, started) ==
  IF ~started THEN h
  ELSE [h EXCEPT !.spotVisible = @ \cup {<<t.run, t.path>>}]

\* ---- startAR ------------------------------------------------------------
\* no execution of startAR is suspended at an await
NoStartInProgress == \A r \in RunIds : pc[r] \in {"idle", "done"}

\* the click listener of the Start button: startAR up to its first await
startAR ==
  /\ ~startDisabled
  /\ nRuns < MaxStarts
  /\ LET r == nRuns + 1
         h == clearModels(Heap)
     IN /\ nRuns' = r
        /\ IF testMode
             THEN /\ BeginTestMode(r, h)
                  /\ UNCHANGED testMode
             ELSE /\ SetHeap(h)
                  /\ pc' = [pc EXCEPT ![r] = "camera"]
                  /\ loading' = TRUE
                  /\ UNCHANGED << testMode, scene, renderer, animLoop, spotlights,
                                  idx, startDisabled, stopDisabled >>
  /\ failed' = {}
  /\ UNCHANGED << static, mindarThree, attached, ar, errorPlanes, nStops, nToggles >>

\* a click on Start while no startAR is suspended
StartClick == NoStartInProgress /\ startAR

\* a click on Start while an earlier startAR is suspended at an await; the
\* button is enabled until a startAR has run to its end
StartClickOverlap == ~NoStartInProgress /\ startAR

\* navigator.mediaDevices.getUserMedia resolves
CameraGranted ==
  \E r \in RunIds :
    /\ pc[r] = "camera"
    /\ pc' = [pc EXCEPT ![r] = "target"]
    /\ UNCHANGED << static, testMode, mindarThree, scene, renderer, animLoop,
                    heapVars, attached, nRuns, idx, spotlights, ar, errorPlanes,
                    startDisabled, stopDisabled, loading, failed, nStops, nToggles >>

\* getUserMedia rejects; the user answers the fallback prompt
CameraDenied ==
  \E r \in RunIds, accept \in BOOLEAN :
    /\ pc[r] = "camera"
    /\ FailAR(r, accept, Heap)
    /\ failed' = failed \cup Failure(r, "camera", accept)
    /\ UNCHANGED << static, mindarThree, attached, nRuns, ar, errorPlanes, nStops, nToggles >>

\* initializeAR after its loop: handlers, animation loop, cleanup function
finishInitializeAR(r) ==
  /\ ar' = [ar EXCEPT ![r].handlers = TRUE, ![r].cleanup = TRUE]
  /\ animLoop' = TRUE
  /\ pc' = [pc EXCEPT ![r] = "engine"]
  /\ idx' = [idx EXCEPT ![r] = 0]

\* the HEAD request for targets/targets.mind succeeds: MindARThree is created
\* and the load loop of initializeAR starts
TargetFound ==
  \E r \in RunIds :
    /\ pc[r] = "target"
    /\ mindarThree' = r
    /\ spotlights' = [spotlights EXCEPT ![r] = << >>]
    /\ LET first == NextEnabled(config, 0) IN
       IF first # 0
         THEN /\ pc' = [pc EXCEPT ![r] = "loadAR"]
              /\ idx' = [idx EXCEPT ![r] = first]
              /\ ar' = [ar EXCEPT ![r] = NewAR]
              /\ UNCHANGED animLoop
         ELSE /\ ar' = [ar EXCEPT ![r] = [NewAR EXCEPT !.handlers = TRUE,
                                                        !.cleanup = TRUE]]
              /\ animLoop' = TRUE
              /\ pc' = [pc EXCEPT ![r] = "engine"]
              /\ idx' = [idx EXCEPT ![r] = 0]
    /\ UNCHANGED << static, testMode, scene, renderer, heapVars, attached, nRuns,
                    errorPlanes, startDisabled, stopDisabled, loading, failed, nStops, nToggles >>

\* the HEAD request for the target file fails
TargetMissing ==
  \E r \in RunIds, accept \in BOOLEAN :
    /\ pc[r] = "target"
    /\ FailAR(r, accept, Heap)
    /\ failed' = failed \cup Failure(r, "target", accept)
    /\ UNCHANGED << static, mindarThree, attached, nRuns, ar, errorPlanes, nStops, nToggles >>

\* one iteration of initializeAR's loop, loadModel resolves
ARLoadOk ==
  \E r \in RunIds :
    /\ pc[r] = "loadAR"
    /\ LET i == idx[r]
           h1 == loadModel(Heap, ARObj(r), i, FALSE, config, testMode,
                           mindarThree, nStops)
           nxt == NextEnabled(config, i)
       IN /\ SetHeap(h1)
          /\ attached' = attached \cup {<<ARObj(r), i>>}
          /\ spotlights' = [spotlights EXCEPT ![r] =
                              IF config[i].ball THEN @ ELSE Append(@, i)]
          /\ IF nxt # 0
               THEN /\ idx' = [idx EXCEPT ![r] = nxt]
                    /\ UNCHANGED << pc, ar, animLoop >>
               ELSE finishInitializeAR(r)
    /\ UNCHANGED << static, testMode, mindarThree, scene, renderer, nRuns,
                    errorPlanes, startDisabled, stopDisabled, loading, failed, nStops, nToggles >>

\* one iteration of initializeAR's loop, loadModel rejects: the catch block
\* calls displayErrorMessage, which adds the plane to the global scene and
\* throws when that is undefined or null
ARLoadFail ==
  \E r \in RunIds, accept \in BOOLEAN :
    /\ pc[r] = "loadAR"
    /\ LET i == idx[r]
           nxt == NextEnabled(config, i)
       IN IF scene # 0
            THEN /\ errorPlanes' = errorPlanes \cup {<<scene, r, i>>}
                 /\ IF nxt # 0
                      THEN /\ idx' = [idx EXCEPT ![r] = nxt]
                           /\ UNCHANGED << pc, ar, animLoop >>
                      ELSE finishInitializeAR(r)
                 /\ UNCHANGED << testMode, scene, renderer, heapVars, spotlights,
                                 startDisabled, stopDisabled, loading >>
            ELSE /\ FailAR(r, accept, Heap)
                 /\ UNCHANGED << errorPlanes, ar >>
    /\ failed' = failed \cup {<<r, idx[r], "ar">>}
                  \cup (IF scene # 0 \/ accept THEN {} ELSE {<<r, 0, "declined">>})
    /\ UNCHANGED << static, mindarThree, attached, nRuns, nStops, nToggles >>

\* mindarThree.start() resolves
EngineStarted ==
  \E r \in RunIds :
    /\ pc[r] = "engine"
    /\ ar' = [ar EXCEPT ![r].engine = "on"]
    /\ StartCompleted(r)
    /\ UNCHANGED << static, testMode, mindarThree, scene, renderer, animLoop,
                    heapVars, attached, nRuns, spotlights, errorPlanes, failed, nStops, nToggles >>

\* mindarThree.start() rejects
EngineFailed ==
  \E r \in RunIds, accept \in BOOLEAN :
    /\ pc[r] = "engine"
    /\ FailAR(r, accept, Heap)
    /\ failed' = failed \cup Failure(r, "engine", accept)
    /\ UNCHANGED << static, mindarThree, attached, nRuns, ar, errorPlanes, nStops, nToggles >>

\* ---- tracking events ----------------------------------------------------
\* fault model: startAnimationSequence without its early return
targetFoundRestart(h, started, r, sp, cfg, e) ==
  startAnimationSequence(h, r, sp, cfg, e)

\* startAnimationSequence as onTargetFound calls it: it returns at once when
\* animationSequenceStarted is set
targetFound(h, started, r, sp, cfg, e) ==
  IF started THEN h ELSE startAnimationSequence(h, r, sp, cfg, e)

\* stopAnimationSequence as onTargetLost calls it: it returns at once when
\* animationSequenceStarted is not set
targetLost(h, started, r, sp) ==
  IF started THEN stopAnimationSequence(h, r, sp) ELSE h

\* the closure state after onTargetFound / onTargetLost
foundAR(a) ==
  [a EXCEPT !.seqStarted = TRUE, !.text = TRUE, !.tracked = TRUE,
            !.since = IF a.seqStarted THEN @ ELSE 0]

\* fault model: onTargetLost stops the sequence and leaves the text boxes
lostARKeepsText(a) ==
  [a EXCEPT !.seqStarted = FALSE, !.tracked = FALSE, !.since = 0]

lostAR(a) ==
  [a EXCEPT !.seqStarted = FALSE, !.text = FALSE, !.tracked = FALSE, !.since = 0]

\* anchor.onTargetFound
OnTargetFound ==
  \E r \in RunIds :
    /\ ar[r].engine = "on"
    /\ ar[r].handlers
    /\ SetHeap(targetFound(Heap, ar[r].seqStarted, r, spotlights[r], config, nStops))
    /\ ar' = [ar EXCEPT ![r] = foundAR(@)]
    /\ UNCHANGED << static, testMode, mindarThree, scene, renderer, animLoop,
                    attached, nRuns, pc, idx, spotlights, errorPlanes,
                    startDisabled, stopDisabled, loading, failed, nStops, nToggles >>

\* anchor.onTargetLost
OnTargetLost ==
  \E r \in RunIds :
    /\ ar[r].engine = "on"
    /\ ar[r].handlers
    /\ SetHeap(targetLost(Heap, ar[r].seqStarted, r, spotlights[r]))
    /\ ar' = [ar EXCEPT ![r] = lostAR(@)]
    /\ UNCHANGED << static, testMode, mindarThree, scene, renderer, animLoop,
                    attached, nRuns, pc, idx, spotlights, errorPlanes,
                    startDisabled, stopDisabled, loading, failed, nStops, nToggles >>

\* ---- stopAR -------------------------------------------------------------
\* a click on Stop.  libOk: the outcome of mindarThree.stop() on an engine that
\* was never started (it resolves when the engine is running)
StopClick ==
  \E libOk \in BOOLEAN :
    /\ ~stopDisabled
    /\ LET m == mindarThree
           arBranch == m # 0 /\ ~testMode
           doCleanup == arBranch /\ ar[m].cleanup
           stopOk == ~arBranch \/ ar[m].engine = "on" \/ libOk
           h1 == IF doCleanup /\ ar[m].seqStarted
                   THEN stopAnimationSequence(Heap, m, spotlights[m]) ELSE Heap
           ar1 == IF doCleanup
                    THEN [ar EXCEPT ![m].seqStarted = FALSE, ![m].handlers = FALSE,
                                    ![m].since = 0]
                    ELSE ar
           h2 == clearModels(stopResetCycle(h1))
           \* scene graphs nothing refers to any more: the test scene, and the
           \* anchor group of the MindAR object that was stopped
           gone == {scene} \cup (IF arBranch THEN {ARObj(m)} ELSE {})
       IN /\ (arBranch /\ ar[m].engine = "on") => libOk
          /\ ~arBranch => libOk
          /\ IF stopOk
               THEN /\ ar' = IF arBranch
                               THEN [ar1 EXCEPT ![m].engine = "off", ![m].tracked = FALSE,
                                                ![m].text = FALSE]
                               ELSE ar1
                    /\ mindarThree' = IF arBranch THEN 0 ELSE mindarThree
                    /\ SetHeap([h2 EXCEPT !.objVisible = {o \in @ : o[1] \notin gone}])
                    /\ attached' = {o \in attached : o[1] \notin gone}
                    /\ errorPlanes' = {o \in errorPlanes : o[1] \notin gone}
                    /\ renderer' = 0
                    /\ scene' = 0
                    /\ startDisabled' = FALSE
                    /\ stopDisabled' = TRUE
                    /\ nStops' = nStops + 1
                    /\ failed' = {}
               ELSE /\ ar' = ar1
                    /\ SetHeap(h1)
                    /\ UNCHANGED << mindarThree, renderer, scene, startDisabled,
                                    stopDisabled, nStops, attached, errorPlanes,
                                    failed >>
    /\ UNCHANGED << static, testMode, animLoop, nRuns, pc, idx,
                    spotlights, loading, nToggles >>

\* the change listener of the test-mode checkbox
ToggleTestMode ==
  /\ nToggles < MaxToggles
  /\ nToggles' = nToggles + 1
  /\ testMode' = ~testMode
  /\ UNCHANGED << static, mindarThree, scene, renderer, animLoop, heapVars,
                  attached, nRuns, pc, idx, spotlights, ar, errorPlanes,
                  startDisabled, stopDisabled, loading, failed, nStops >>

\* ---- the event loop: timers and time -------------------------------------
\* index of the callback the event loop runs next, 0 when none is due
Due ==
  IF \E i \in 1..Len(timers) : timers[i].rem = 0
    THEN CHOOSE i \in 1..Len(timers) :
           timers[i].rem = 0 /\ \A j \in 1..(i - 1) : timers[j].rem # 0
    ELSE 0

Without(ts, i) == SubSeq(ts, 1, i - 1) \o SubSeq(ts, i + 1, Len(ts))

tickVars == << static, testMode, mindarThree, scene, renderer, animLoop,
              attached, nRuns, pc, idx, spotlights, errorPlanes,
              startDisabled, stopDisabled, loading, failed, nStops, nToggles >>
otherVars == << tickVars, ar >>

FireShow ==
  /\ Due # 0
  /\ timers[Due].kind = "show"
  /\ SetHeap(showModelCallback([Heap EXCEPT !.timers = Without(@, Due)],
                               timers[Due].path))
  /\ UNCHANGED otherVars

FireSpot ==
  /\ Due # 0
  /\ timers[Due].kind = "spot"
  /\ SetHeap([Heap EXCEPT !.timers = Without(@, Due),
                          !.spotVisible = @ \cup {<<timers[Due].run, timers[Due].path>>}])
  /\ UNCHANGED otherVars

FireSeqModel ==
  /\ Due # 0
  /\ timers[Due].kind = "seqModel"
  /\ SetHeap(seqModelCallback([Heap EXCEPT !.timers = Without(@, Due)],
                              timers[Due], ar[timers[Due].run].seqStarted))
  /\ UNCHANGED otherVars

FireSeqSpot ==
  /\ Due # 0
  /\ timers[Due].kind = "seqSpot"
  /\ SetHeap(seqSpotCallback([Heap EXCEPT !.timers = Without(@, Due)],
                             timers[Due], ar[timers[Due].run].seqStarted))
  /\ UNCHANGED otherVars

\* the interval callback: this.resetModels(), then the interval is re-armed
FireCycle ==
  /\ Due # 0
  /\ timers[Due].kind = "cycle"
  /\ LET t == timers[Due]
         h1 == resetModels([Heap EXCEPT !.timers = Without(@, Due)],
                           Len(resetChain), spotlights, config, testMode,
                           mindarThree, nStops)
     IN SetHeap([h1 EXCEPT !.timers =
                   Append(@, [t EXCEPT !.rem = CycleInterval, !.obj = 1])])
  /\ UNCHANGED otherVars

\* one time unit passes; the animation loops call updateAnimations
Tick ==
  /\ Due = 0
  /\ LET h1 == [Heap EXCEPT !.timers = [i \in 1..Len(timers) |->
                                          [timers[i] EXCEPT !.rem = @ - 1]]]
     IN SetHeap(IF animLoop THEN animate(h1, 1).heap ELSE h1)
  /\ ar' = [r \in RunIds |->
              IF ar[r].seqStarted /\ ar[r].since < MaxSince
                THEN [ar[r] EXCEPT !.since = @ + 1] ELSE ar[r]]
  /\ UNCHANGED tickVars

\* ---- the other programs, before anything of them has run ----------------
LdIdle == [path |-> << >>, reachable |-> FALSE, parses |-> FALSE,
           result |-> "none", registry |-> {}]

\* ---- ModelManager.loadModel, one call as a function of its path --------
\* String.prototype.toLowerCase on the letters the paths below use
LowerCase(c) ==
  CASE c = "F" -> "f" [] c = "B" -> "b" [] c = "X" -> "x"
    [] c = "G" -> "g" [] c = "L" -> "l" [] c = "T" -> "t" [] OTHER -> c

toLowerCase(str) == [i \in 1..Len(str) |-> LowerCase(str[i])]

endsWith(str, suffix) ==
  /\ Len(str) >= Len(suffix)
  /\ SubSeq(str, Len(str) - Len(suffix) + 1, Len(str)) = suffix

DotFbx == << ".", "f", "b", "x" >>
DotGlb == << ".", "g", "l", "b" >>
DotGltf == << ".", "g", "l", "t", "f" >>

\* the paths a call is made with: a directory part and a file name ending
LdStems == { << "m" >>, << "d", "/", "m" >>, << "a", ".", "g", "l", "b", "/", "m" >> }
LdEndings == { DotFbx, << ".", "F", "B", "X" >>, DotGlb, << ".", "G", "l", "B" >>,
               DotGltf, << ".", "o", "b", "j" >>, << "f", "b", "x" >>,
               << ".", "f", "b", "x", ".", "b", "a", "k" >>, << >> }
LdPaths == { a \o b : a \in LdStems, b \in LdEndings }

\* loadModel(path): the HEAD request first, then the loader chosen by the
\* extension; the outcome is "ok" or the error the call rejects with
loadModelOutcome(path, reachable, parses) ==
  IF ~reachable THEN "unreachable"
  ELSE IF endsWith(toLowerCase(path), DotFbx)
         THEN IF parses THEN "ok" ELSE "malformed"
  ELSE IF endsWith(toLowerCase(path), DotGlb) \/ endsWith(toLowerCase(path), DotGltf)
         THEN IF parses THEN "ok" ELSE "malformed"
  ELSE "unsupported"

\* one call of loadModel; this.models[path] is written on success only
LoadAsset ==
  /\ ld.result = "none"
  /\ ld.path # << >>
  /\ LET out == loadModelOutcome(ld.path, ld.reachable, ld.parses)
     IN ld' = [ld EXCEPT !.result = out,
                         !.registry = IF out = "ok" THEN @ \cup {ld.path} ELSE @]
  /\ UNCHANGED << config, mt, viewer, progVars >>

\* ---- src/js/main.js: loadTestModels ------------------------------------
MtEntries == 3                        \* entries of its getModelConfigs()
MtFiles == 0..MtEntries               \* entry i has path i; 0 is a file of its own
MtPosition(i) == i - 2                \* config.position, the x coordinate
MtOrigin == 0                         \* new THREE.Vector3(0, 0, 0)
MtNone == 99                          \* no object registered for the path

MtIdle == [pc |-> "idle", present |-> {}, fallback |-> 0, i |-> 0,
           registry |-> [f \in MtFiles |-> MtNone], scene |-> {}]

\* ModelManager.loadModel of main.js: a registered path is returned as it
\* is, a present file gives a new object at the position asked for, and a
\* missing file rejects (ok = FALSE)
MtLoadModel(m, path, position) ==
  IF m.registry[path] # MtNone
    THEN [ok |-> TRUE, m |-> m, obj |-> <<path, m.registry[path]>>]
  ELSE IF path \in m.present
    THEN [ok |-> TRUE, m |-> [m EXCEPT !.registry[path] = position],
          obj |-> <<path, position>>]
  ELSE [ok |-> FALSE, m |-> m, obj |-> << >>]

\* the entry after i, or the end of the function
MtAdvance(m) ==
  IF m.i < MtEntries THEN [m EXCEPT !.i = @ + 1, !.pc = "load"]
  ELSE [m EXCEPT !.pc = "done"]

\* loadTestModels is called; the HEAD request for the fallback file only logs
MtStart ==
  /\ mt.pc = "idle"
  /\ mt' = [mt EXCEPT !.pc = "load", !.i = 1]
  /\ UNCHANGED << config, ld, viewer, progVars >>

\* await ModelManager.loadModel(modelConfigs[i].path, ...) settles
MtLoad ==
  /\ mt.pc = "load"
  /\ LET res == MtLoadModel(mt, mt.i, MtPosition(mt.i))
     IN mt' = IF res.ok
                THEN MtAdvance([res.m EXCEPT !.scene = @ \cup {res.obj}])
                ELSE [mt EXCEPT !.pc = IF mt.i = 1 THEN "fallbackFirst" ELSE "fallback"]
  /\ UNCHANGED << config, ld, viewer, progVars >>

\* the catch of an entry of the for loop: the fallback model at the entry's
\* position; a failure of the fallback is logged and the loop goes on
MtFallback ==
  /\ mt.pc = "fallback"
  /\ LET res == MtLoadModel(mt, mt.fallback, MtPosition(mt.i))
     IN mt' = IF res.ok
                THEN MtAdvance([res.m EXCEPT !.scene = @ \cup {res.obj}])
                ELSE MtAdvance(mt)
  /\ UNCHANGED << config, ld, viewer, progVars >>

\* the catch around the first model and the for loop: the fallback model at
\* the origin, and no other entry is loaded
MtFallbackFirst ==
  /\ mt.pc = "fallbackFirst"
  /\ LET res == MtLoadModel(mt, mt.fallback, MtOrigin)
     IN mt' = IF res.ok
                THEN [res.m EXCEPT !.scene = @ \cup {res.obj}, !.pc = "done"]
                ELSE [mt EXCEPT !.pc = "failed"]
  /\ UNCHANGED << config, ld, viewer, progVars >>
\* ---- the model viewer page ----------------------------------------------
MaxClicks == 6          \* clicks on the toggle-animation button
ViewerClipLen == 6      \* duration of the clip, which loops (LoopRepeat)

\* the page before init(): mixer undefined, animationAction null,
\* isPlaying true, the label as the HTML has it
ViewerIdle == [pc |-> "idle", hasAnimations |-> FALSE, loadable |-> FALSE,
               mixer |-> FALSE, action |-> NoAction, isPlaying |-> TRUE,
               label |-> "html", disabled |-> FALSE, clicks |-> 0]

\* fault model: the flag and the label are flipped before the guard
toggleAnimationUnguarded(v) ==
  LET w == [v EXCEPT !.isPlaying = ~v.isPlaying,
                     !.label = IF ~v.isPlaying THEN "Pause Animation"
                               ELSE "Play Animation"]
  IN IF ~v.mixer \/ v.action = NoAction THEN w
     ELSE [w EXCEPT !.action.paused = ~w.isPlaying]

\* the click listener of the toggle-animation button
toggleAnimation(v) ==
  IF ~v.mixer \/ v.action = NoAction THEN v
  ELSE LET w == [v EXCEPT !.isPlaying = ~v.isPlaying,
                          !.label = IF ~v.isPlaying THEN "Pause Animation"
                                    ELSE "Play Animation"]
       IN [w EXCEPT !.action.paused = ~w.isPlaying]

\* a click on the button; a disabled button dispatches no click
ViewerToggleClick ==
  /\ viewer.pc # "idle"
  /\ ~viewer.disabled
  /\ viewer.clicks < MaxClicks
  /\ viewer' = [toggleAnimation(viewer) EXCEPT !.clicks = @ + 1]
  /\ UNCHANGED << config, ld, mt, progVars >>

\* the loader's onLoad callback of loadModel
ViewerLoaded ==
  /\ viewer.pc = "loading"
  /\ viewer.loadable
  /\ viewer' = [viewer EXCEPT
                  !.pc = "loaded",
                  !.mixer = TRUE,
                  !.action = IF viewer.hasAnimations THEN ActionNew ELSE NoAction,
                  !.disabled = ~viewer.hasAnimations,
                  !.label = "Pause Animation"]
  /\ UNCHANGED << config, ld, mt, progVars >>

\* the HEAD request or the loader fails: displayErrorMessage
ViewerLoadError ==
  /\ viewer.pc = "loading"
  /\ ~viewer.loadable
  /\ viewer' = [viewer EXCEPT !.pc = "error"]
  /\ UNCHANGED << config, ld, mt, progVars >>

\* animate(): mixer.update(clock.getDelta()) on the looping clip
ViewerFrame ==
  /\ viewer.mixer
  /\ viewer.action # NoAction
  /\ ~viewer.action.paused
  /\ viewer' = [viewer EXCEPT !.action.time = (@ + 1) % ViewerClipLen]
  /\ UNCHANGED << config, ld, mt, progVars >>

\* ---- specification -------------------------------------------------------
InitProgram ==
  /\ config \in ConfigLists
  /\ testMode \in BOOLEAN
  /\ mindarThree = 0
  /\ scene = 0
  /\ renderer = 0
  /\ animLoop = FALSE
  /\ models = [p \in Paths |-> 0]
  /\ modelKeys = << >>
  /\ mixers = {}
  /\ actions = [p \in Paths |-> NoAction]
  /\ objVisible = {}
  /\ spotVisible = {}
  /\ attached = {}
  /\ timers = << >>
  /\ cycleTimer = 0
  /\ resetChain = << >>
  /\ nRuns = 0
  /\ pc = [r \in RunIds |-> "idle"]
  /\ idx = [r \in RunIds |-> 0]
  /\ spotlights = [r \in RunIds |-> << >>]
  /\ ar = [r \in RunIds |-> NewAR]
  /\ errorPlanes = {}
  /\ shown = [p \in Paths |-> 0]
  /\ failed = {}
  /\ startDisabled = FALSE
  /\ stopDisabled = TRUE
  /\ loading = FALSE
  /\ nStops = 0
  /\ nToggles = 0

\* the application page as loaded, while another program is looked at
PageUntouched ==
  /\ InitProgram
  /\ config = CHOOSE c \in ConfigLists : TRUE
  /\ ~testMode

\* the application page; nothing of the other programs has run
Init ==
  /\ InitProgram
  /\ ld = LdIdle
  /\ mt = MtIdle
  /\ viewer = ViewerIdle

Next ==
  \/ StartClick
  \/ TestLoadOk
  \/ TestLoadFail
  \/ CameraGranted
  \/ CameraDenied
  \/ TargetFound
  \/ TargetMissing
  \/ ARLoadOk
  \/ ARLoadFail
  \/ EngineStarted
  \/ EngineFailed
  \/ OnTargetFound
  \/ OnTargetLost
  \/ StopClick
  \/ FireShow
  \/ FireSpot
  \/ FireSeqModel
  \/ FireSeqSpot
  \/ FireCycle
  \/ Tick

Spec == Init /\ [][Next]_vars

\* one call of ModelManager.loadModel, for every path, reachable or not,
\* with content the loader accepts or not
InitLoader ==
  /\ PageUntouched
  /\ ld \in [path : LdPaths, reachable : BOOLEAN, parses : BOOLEAN,
             result : {"none"}, registry : {{}}]
  /\ mt = MtIdle
  /\ viewer = ViewerIdle

NextLoader == LoadAsset

SpecLoader == InitLoader /\ [][NextLoader]_vars

\* loadTestModels of src/js/main.js for every set of files that exist; the
\* fallback path is the first entry's (as shipped) or a file of its own
InitMainTest ==
  /\ PageUntouched
  /\ ld = LdIdle
  /\ viewer = ViewerIdle
  /\ \E files \in SUBSET MtFiles, fb \in {0, 1} :
       mt = [MtIdle EXCEPT !.present = files, !.fallback = fb]

NextMainTest ==
  \/ MtStart
  \/ MtLoad
  \/ MtFallback
  \/ MtFallbackFirst

SpecMainTest == InitMainTest /\ [][NextMainTest]_vars

\* the application page in test mode, with clicks on Start at any time the
\* button is enabled
InitOverlap == Init /\ testMode

NextOverlap ==
  \/ StartClick
  \/ StartClickOverlap
  \/ TestLoadOk
  \/ TestLoadFail
  \/ StopClick
  \/ FireShow
  \/ FireSpot
  \/ FireCycle
  \/ Tick

SpecOverlap == InitOverlap /\ [][NextOverlap]_vars

\* the model viewer page after init(), for an asset with or without
\* animations that can or cannot be loaded
InitViewer ==
  /\ PageUntouched
  /\ ld = LdIdle
  /\ mt = MtIdle
  /\ \E anim \in BOOLEAN, ok \in BOOLEAN :
       viewer = [ViewerIdle EXCEPT !.pc = "loading", !.hasAnimations = anim,
                                   !.loadable = ok]

NextViewer ==
  \/ ViewerToggleClick
  \/ ViewerLoaded
  \/ ViewerLoadError
  \/ ViewerFrame

SpecViewer == InitViewer /\ [][NextViewer]_vars

\* the variant of the program that has the test-mode checkbox
NextToggle ==
  \/ Next
  \/ ToggleTestMode

SpecToggle == Init /\ [][NextToggle]_vars

TypeOK ==
  /\ testMode \in BOOLEAN
  /\ mindarThree \in 0..MaxStarts
  /\ nRuns \in 0..MaxStarts
  /\ cycleTimer \in 0..MaxStarts
  /\ \A p \in Paths : models[p] \in (0 - MaxStarts)..MaxStarts
  /\ \A i \in 1..Len(timers) : timers[i].rem >= 0

\* ---- properties ----------------------------------------------------------
\* the application is stopped: no session, no execution of startAR under way
AppStopped == ~startDisabled /\ stopDisabled /\ NoStartInProgress

\* the tracking sequencer of run r exists and its session has not been stopped
SequencerLive(r) == ar[r].cleanup /\ (pc[r] = "engine" \/ ar[r].engine = "on")

\* the test-mode session of run r is the current one
TestSession(r) == scene = r /\ pc[r] \in {"loadTest", "done"}

\* a showModel timeout for path p that the current session created
FreshShow(p) ==
  \E i \in 1..Len(timers) :
    /\ timers[i].kind = "show"
    /\ timers[i].path = p
    /\ timers[i].epoch = nStops
    /\ timers[i].rem <= config[p].delay

CycleTimers == {i \in 1..Len(timers) : timers[i].kind = "cycle"}

\* C1: Stop in test mode cancels every outstanding reveal timer: no showModel
\* timeout and no spotlight timeout that was created before a completed Stop is
\* still pending afterwards, so none of them can run after Stop or after a
\* later Start.
C1_StopCancelsRevealTimers ==
  \A i \in 1..Len(timers) :
    timers[i].kind \in {"show", "spot"} => timers[i].epoch = nStops

\* C2: whenever the tracking sequencer is not Running (before the first
\* target-found, after target-lost, after cleanup) none of its reveal timers
\* is pending and its spotlights are hidden; while its session is live every
\* loaded model is hidden as well and no other reveal timer is pending.
C2_IdleSequencerHasNoTimers ==
  \A r \in RunIds :
    (ar[r].cleanup /\ ~ar[r].seqStarted) =>
      /\ \A i \in 1..Len(timers) : ~IsSeqTimerOf(timers[i], r)
      /\ \A i \in 1..Len(spotlights[r]) :
           SequencerLive(r) => <<r, spotlights[r][i]>> \notin spotVisible
      /\ SequencerLive(r) =>
           /\ \A p \in Paths : models[p] # 0 => <<models[p], p>> \notin objVisible
           /\ \A i \in 1..Len(timers) : timers[i].kind \notin {"show", "spot"}

\* C2 witness: the sequencer of a live session was stopped by target-lost (its
\* clips were reset and have run on since) and is idle
C2_Witness ==
  \E r \in RunIds :
    /\ ar[r].engine = "on"
    /\ ~ar[r].seqStarted
    /\ \E p \in Paths : models[p] = ARObj(r) /\ actions[p].time > 0

\* C3: while the tracking sequence runs (started by target-found, not stopped)
\* every enabled and loaded entry is hidden and unrevealed before start + its
\* delay, and from then on it is visible and has been revealed exactly once.
C3_RevealedOnceAtDelay ==
  \A r \in RunIds :
    (ar[r].engine = "on" /\ ar[r].seqStarted) =>
      \A p \in Paths :
        (config[p].enabled /\ models[p] = ARObj(r)) =>
          /\ ar[r].since < config[p].delay =>
               shown[p] = 0 /\ <<ARObj(r), p>> \notin objVisible
          /\ ar[r].since > config[p].delay =>
               shown[p] = 1 /\ <<ARObj(r), p>> \in objVisible
          /\ shown[p] <= 1

\* C3 witness: the sequence has run past the largest delay, which is longer
\* than one time unit, and every enabled entry has been revealed once
C3_Witness ==
  \E r \in RunIds :
    /\ ar[r].engine = "on"
    /\ ar[r].seqStarted
    /\ \A p \in Paths : ar[r].since > config[p].delay
    /\ \E p \in Paths : config[p].delay > 1
    /\ \A p \in Paths : config[p].enabled => models[p] = ARObj(r) /\ shown[p] = 1

C5_ARLoadFailureIsolated ==
  \A r \in RunIds : \A p \in Paths :
    <<r, p, "ar">> \in failed =>
      /\ \E s \in RunIds : <<s, r, p>> \in errorPlanes
      /\ pc[r] = "loadAR" \/ ar[r].cleanup

\* C6: an enabled entry with delay 0 and visible: false is revealed at the
\* start of the sequence in the first run: in test mode from the moment it is
\* loaded, in tracking mode from target-found on, it is visible or its reveal
\* callback is due.
C6_ZeroDelayRevealedAtStart ==
  \A p \in Paths :
    ( /\ config[p].enabled
      /\ config[p].delay = 0
      /\ ~config[p].visible
      /\ models[p] # 0 ) =>
        LET o == models[p] IN
        /\ (o > 0 /\ TestSession(o)) =>
             \/ <<o, p>> \in objVisible
             \/ \E i \in 1..Len(timers) :
                  /\ timers[i].kind = "show"
                  /\ timers[i].path = p
                  /\ timers[i].epoch = nStops
                  /\ timers[i].rem = 0
        /\ (o < 0 /\ ar[0 - o].engine = "on" /\ ar[0 - o].seqStarted) =>
             \/ <<o, p>> \in objVisible
             \/ \E i \in 1..Len(timers) :
                  /\ timers[i].kind = "seqModel"
                  /\ timers[i].obj = o
                  /\ timers[i].path = p
                  /\ timers[i].rem = 0

\* the specification's restart on the state resetModels works on: stop (every
\* pending reveal cancelled, everything hidden by hideAllModels) followed by
\* start (the reveal of every loaded entry scheduled with its own delay)
StopThenStart(h, cfg, tm, mind, e) ==
  LET keys == h.modelKeys
      h1 == [h EXCEPT !.timers = SelectSeq(@, LAMBDA t :
                                   t.kind \notin {"show", "spot"})]
      h2 == hideAllModels(h1)
      f[i \in 0..Len(keys)] ==
        IF i = 0 THEN h2
        ELSE showModel(f[i - 1], keys[i], cfg[keys[i]].delay, tm, mind, e)
  IN f[Len(keys)]

ShowTimers(ts) == SelectSeq(ts, LAMBDA t : t.kind = "show")

\* the step is an execution of the interval callback
IsResetStep ==
  /\ Due # 0
  /\ timers[Due].kind = "cycle"
  /\ Len(timers') > 0
  /\ timers'[Len(timers')] = [timers[Due] EXCEPT !.rem = CycleInterval, !.obj = 1]

\* C7: resetModels at time T leaves the visibility of every entry, the
\* playback position of every clip and the pending showModel timers as an
\* explicit stop followed by a start at T would, whatever was pending.
C7_ResetIsStopThenStart ==
  [][ IsResetStep =>
        LET ref == StopThenStart([Heap EXCEPT !.timers = Without(@, Due)],
                                 config, testMode, mindarThree, nStops)
        IN /\ objVisible' = ref.objVisible
           /\ \A p \in Paths : actions'[p].time = ref.actions[p].time
           /\ ShowTimers(timers') = ShowTimers(ref.timers) ]_vars

\* C8: at most one reset interval exists and it is the one cycleTimer names;
\* while the application is stopped cycleTimer is null and no interval is
\* pending, so resetModels is not invoked until the next Start.
C8_OneCycleTimerNoneWhenStopped ==
  /\ Cardinality(CycleTimers) <= 1
  /\ \A i \in CycleTimers : timers[i].run = cycleTimer
  /\ AppStopped => cycleTimer = 0 /\ CycleTimers = {}

\* C8 witness: a test-mode session whose reset cycle ran has been stopped
C8_Witness ==
  /\ AppStopped
  /\ nStops > 0
  /\ Len(resetChain) > 0
  /\ \E i \in 1..Len(timers) : timers[i].kind = "spot" /\ timers[i].epoch < nStops

\* C9: Stop stops the session Start created: when the application is stopped
\* no MindAR engine is running and no tracking sequence is running.
C9_StopStopsTheSession ==
  AppStopped => \A r \in RunIds : ar[r].engine = "off" /\ ~ar[r].seqStarted

\* C10: an entry with enabled: false is never loaded, gets no timer and no
\* spotlight, is never attached or visible, and no load of it is attempted.
C10_DisabledEntryUntouched ==
  \A p \in Paths :
    ~config[p].enabled =>
      /\ models[p] = 0
      /\ \A i \in 1..Len(timers) : timers[i].path # p
      /\ \A r \in RunIds : \A i \in 1..Len(spotlights[r]) : spotlights[r][i] # p
      /\ \A o \in objVisible \cup spotVisible \cup attached : o[2] # p
      /\ \A o \in errorPlanes : o[3] # p
      /\ \A o \in failed : o[2] # p

\* C10 witness: the list has a disabled entry while another entry is loaded and
\* visible and the reset cycle runs
C10_Witness ==
  /\ \E p \in Paths : ~config[p].enabled
  /\ \E q \in Paths : models[q] # 0 /\ <<models[q], q>> \in objVisible
  /\ cycleTimer # 0

\* the step is an iteration of loadTestModels' loop of run r whose awaited
\* loadModel resolved
IsTestLoadOkStep(r) ==
  /\ pc[r] = "loadTest"
  /\ failed' = failed
  /\ idx'[r] # idx[r] \/ pc'[r] # pc[r]

\* C11: loadModel for a path that is already in the registry returns the
\* existing entry: the entry, its mixer and its actions are not replaced and
\* no further reveal is scheduled.
C11_LoadModelIdempotent ==
  [][ \A r \in RunIds :
        (IsTestLoadOkStep(r) /\ models[idx[r]] # 0) =>
          /\ models'[idx[r]] = models[idx[r]]
          /\ actions'[idx[r]] = actions[idx[r]]
          /\ ShowTimers(timers') = ShowTimers(timers) ]_vars

\* the AR branch of run r failed at one of its awaits
ARStartFailed(r) ==
  \E what \in {"camera", "target", "engine"} : <<r, 0, what>> \in failed

\* test mode runs for run r: every enabled entry that loaded is registered and
\* visible or about to be revealed, and the auto-repeat interval is pending
TestModeRunning(r) ==
  /\ testMode
  /\ scene = r
  /\ startDisabled /\ ~stopDisabled
  /\ cycleTimer = r /\ \E i \in CycleTimers : timers[i].run = r
  /\ \A p \in Paths :
       (config[p].enabled /\ <<r, p, "test">> \notin failed) =>
         /\ models[p] = r
         /\ (config[p].delay > 0 \/ config[p].visible) =>
              (<<r, p>> \in objVisible \/ FreshShow(p))

\* C12: a failure of the AR start (camera denied, target file missing, engine
\* not starting) is handled inside startAR: the run goes on into test mode and
\* ends with the reveal sequence and its auto-repeat running, or, exactly when
\* the fallback prompt was declined, with Start enabled and Stop disabled.
C12_ARFailureFallsBack ==
  \A r \in RunIds :
    ARStartFailed(r) =>
      /\ pc[r] \in {"loadTest", "done"}
      /\ pc[r] = "done" =>
           IF <<r, 0, "declined">> \in failed
             THEN ~startDisabled /\ stopDisabled /\ scene # r /\ cycleTimer = 0
             ELSE TestModeRunning(r)

\* C12 witness: the engine did not start, the fallback was accepted, and the
\* test-mode sequence has revealed a model
C12_Witness ==
  \E r \in RunIds :
    /\ <<r, 0, "engine">> \in failed
    /\ pc[r] = "done"
    /\ TestModeRunning(r)
    /\ \E p \in Paths : ~config[p].visible /\ <<r, p>> \in objVisible

\* C13: within one run reveals follow the configured delays: for enabled,
\* initially hidden entries X and Y that loaded, with delay(X) < delay(Y), Y is
\* not visible while X is not, in the test-mode session (initial run and
\* repeats) and in a running tracking sequence.
C13_RevealsInDelayOrder ==
  \A X \in Paths, Y \in Paths :
    ( /\ config[X].enabled /\ config[Y].enabled
      /\ ~config[X].visible /\ ~config[Y].visible
      /\ config[X].delay < config[Y].delay ) =>
        \A r \in RunIds :
          /\ ( /\ TestSession(r)
               /\ <<r, X, "test">> \notin failed
               /\ <<r, Y, "test">> \notin failed ) =>
                 (<<r, Y>> \in objVisible => <<r, X>> \in objVisible)
          /\ (ar[r].engine = "on" /\ ar[r].seqStarted) =>
               (<<ARObj(r), Y>> \in objVisible => <<ARObj(r), X>> \in objVisible)

\* C14: enabled, initially hidden entries X and Y with the same delay, X before
\* Y in the list, both loaded: Y is not visible while X is not, in the
\* test-mode session (initial run and every repeat) and in every running
\* tracking sequence.
C14_SameDelayInListOrder ==
  \A X \in Paths, Y \in Paths :
    ( /\ X < Y
      /\ config[X].enabled /\ config[Y].enabled
      /\ ~config[X].visible /\ ~config[Y].visible
      /\ config[X].delay = config[Y].delay ) =>
        \A r \in RunIds :
          /\ ( /\ TestSession(r)
               /\ <<r, X, "test">> \notin failed
               /\ <<r, Y, "test">> \notin failed ) =>
                 (<<r, Y>> \in objVisible => <<r, X>> \in objVisible)
          /\ (ar[r].engine = "on" /\ ar[r].seqStarted) =>
               (<<ARObj(r), Y>> \in objVisible => <<ARObj(r), X>> \in objVisible)

\* the clips of the model registered for path p have been started: running,
\* or held at their last frame
ClipsStarted(p) ==
  actions[p] # NoAction => (~actions[p].paused \/ actions[p].time = ClipLen)

\* C15: in a test-mode session (initial run and every repeat) a loaded entry
\* with visible: true is visible, its clips have been started, and no
\* showModel timer of the session is pending for it.
C15_InitiallyVisibleShownAtStart ==
  \A r \in RunIds : \A p \in Paths :
    (TestSession(r) /\ config[p].enabled /\ config[p].visible /\ models[p] = r) =>
      /\ <<r, p>> \in objVisible
      /\ ClipsStarted(p)
      /\ \A i \in 1..Len(timers) :
           ~(timers[i].kind = "show" /\ timers[i].path = p /\ timers[i].epoch = nStops)

\* C16: in every state in which the handlers can be called, target-found on a
\* Running sequence and target-lost on a sequence that is not Running leave
\* every timer, every visibility, every clip state and the closure unchanged.
C16_DuplicateSignalsChangeNothing ==
  \A r \in RunIds :
    (ar[r].engine = "on" /\ ar[r].handlers) =>
      IF ar[r].seqStarted
        THEN /\ targetFound(Heap, TRUE, r, spotlights[r], config, nStops) = Heap
             /\ foundAR(ar[r]) = ar[r]
        ELSE /\ targetLost(Heap, FALSE, r, spotlights[r]) = Heap
             /\ lostAR(ar[r]) = ar[r]

\* C16 witness: a Running sequence with a model revealed, its clip under way
\* and a reveal still pending
C16_Witness ==
  \E r \in RunIds :
    /\ ar[r].engine = "on" /\ ar[r].handlers /\ ar[r].seqStarted
    /\ \E i \in 1..Len(timers) : IsSeqTimerOf(timers[i], r) /\ timers[i].rem > 0
    /\ \E p \in Paths : /\ <<ARObj(r), p>> \in objVisible
                        /\ actions[p] # NoAction /\ actions[p].time > 0

\* what a reveal leaves behind for object o of path p in heap h
Revealed(h, o, p) ==
  /\ <<o, p>> \in h.objVisible
  /\ h.actions[p] # NoAction => h.actions[p] = [paused |-> FALSE, time |-> 0]

\* the part of the heap a reveal can be observed in
RevealView(h) == << h.objVisible, h.spotVisible, h.actions, h.models, h.timers >>

\* C17: in every reachable state, the reveal callback of test mode run for a
\* loaded path, and the reveal callback of a Running AR sequence run for a
\* pending model timer, leave the model visible with its clips at position
\* zero and unpaused; running the callback a second time gives the same state.
C17_RevealRestartsClips ==
  /\ \A p \in Paths :
       models[p] # 0 =>
         LET h1 == showModelCallback(Heap, p)
         IN /\ Revealed(h1, models[p], p)
            /\ RevealView(showModelCallback(h1, p)) = RevealView(h1)
  /\ \A i \in 1..Len(timers) :
       (timers[i].kind = "seqModel" /\ ar[timers[i].run].seqStarted) =>
         LET t == timers[i]
             h1 == seqModelCallback(Heap, t, TRUE)
         IN /\ Revealed(h1, t.obj, t.path)
            /\ RevealView(seqModelCallback(h1, t, TRUE)) = RevealView(h1)

\* C17 witness: a path revealed twice since it was scheduled, the second time
\* while it was visible, and left visible with its clip restarted
C17_Witness ==
  \E p \in Paths :
    /\ models[p] # 0 /\ shown[p] = 2
    /\ <<models[p], p>> \in objVisible
    /\ actions[p] = [paused |-> FALSE, time |-> 0]

\* C18: in every reachable state, hideModel for a loaded path leaves the model
\* invisible and its clips paused at the position they had, and changes
\* nothing else; a second call gives the same state; for a path that is not
\* loaded the call changes nothing.
C18_HideModelPausesInPlace ==
  \A p \in Paths :
    LET h1 == hideModel(Heap, p)
    IN IF models[p] = 0
         THEN h1 = Heap
         ELSE /\ <<models[p], p>> \notin h1.objVisible
              /\ actions[p] # NoAction =>
                   /\ h1.actions[p].paused
                   /\ h1.actions[p].time = actions[p].time
              /\ h1 = [Heap EXCEPT !.objVisible = h1.objVisible,
                                   !.actions[p] = h1.actions[p]]
              /\ h1.objVisible \subseteq objVisible
              /\ objVisible \ h1.objVisible \subseteq {<<models[p], p>>}
              /\ hideModel(h1, p) = h1

\* C18 witness: the cycle timer is due, so that hideAllModels runs next, while
\* one loaded model is visible with its clip under way and another loaded
\* model is already hidden
C18_Witness ==
  /\ Due # 0 /\ timers[Due].kind = "cycle"
  /\ \E p \in Paths :
       /\ models[p] # 0 /\ <<models[p], p>> \in objVisible
       /\ actions[p] # NoAction /\ ~actions[p].paused
       /\ actions[p].time > 0 /\ actions[p].time < ClipLen
  /\ \E p \in Paths : models[p] # 0 /\ <<models[p], p>> \notin objVisible

\* a step in which startAR or stopAR has called ModelManager.clearModels
IsClearModelsStep == nRuns' # nRuns \/ nStops' # nStops

\* C19: after a step that ran clearModels the registry, the mixer set and the
\* action set are empty, and no object that was registered before the step is
\* still attached to a scene or an anchor group.
C19_ClearModelsDetaches ==
  [][ IsClearModelsStep =>
        /\ \A p \in Paths : models'[p] = 0 /\ actions'[p] = NoAction
        /\ mixers' = {}
        /\ modelKeys' = << >>
        /\ \A p \in Paths :
             models[p] # 0 => <<models[p], p>> \notin attached' ]_vars

\* every configured reveal, the spotlight's included, is due before the
\* interval elapses, as in the shipped configuration
ConfiguredTiming ==
  \A p \in Paths : config[p].enabled => config[p].delay + SpotlightExtra < CycleInterval

\* number of pending timers of kind k for path p (and run r for spotlights)
Pending(k, r, p) ==
  Cardinality({i \in 1..Len(timers) :
                 /\ timers[i].kind = k /\ timers[i].path = p
                 /\ (k = "spot" => timers[i].run = r)})

\* C20: in a test-mode session with the configured timing, whenever the
\* interval is due no model or spotlight reveal timer is pending; and once the
\* interval has fired, every loaded model and every spotlight of the session
\* is either hidden with exactly one reveal pending or visible with none
\* pending, a model having been revealed at most once since the tick, so that
\* by the next tick each has been revealed exactly once.
C20_CycleRevealsEachOnce ==
  \A r \in RunIds :
    (ConfiguredTiming /\ TestSession(r) /\ cycleTimer = r) =>
      \A i \in CycleTimers :
        /\ timers[i].rem = 0 =>
             \A j \in 1..Len(timers) : timers[j].kind \notin {"show", "spot"}
        /\ timers[i].obj = 1 =>
             /\ \A p \in Paths :
                  models[p] # 0 =>
                    /\ Pending("show", r, p) +
                         (IF <<models[p], p>> \in objVisible THEN 1 ELSE 0) = 1
                    /\ shown[p] = IF <<models[p], p>> \in objVisible THEN 1 ELSE 0
             /\ \A k \in 1..Len(spotlights[r]) :
                  Pending("spot", r, spotlights[r][k]) +
                    (IF <<r, spotlights[r][k]>> \in spotVisible THEN 1 ELSE 0) = 1

\* C20 witness: the interval is due again after a full cycle, and two models
\* and a spotlight have been revealed in that cycle
C20_Witness ==
  \E r \in RunIds :
    /\ ConfiguredTiming /\ TestSession(r) /\ cycleTimer = r
    /\ \E i \in CycleTimers : timers[i].rem = 0 /\ timers[i].obj = 1
    /\ \A p \in Paths : models[p] # 0 /\ shown[p] = 1 /\ <<models[p], p>> \in objVisible
    /\ \E k \in 1..Len(spotlights[r]) : <<r, spotlights[r][k]>> \in spotVisible

\* C21: in every reachable state with a frame loop running, a frame callback
\* advances the clips of every model that has a mixer, visible or not, as
\* mixer.update does, and the render call of the frame draws the poses the
\* update has produced.
C21_TickUpdatesAllThenRenders ==
  animLoop =>
    LET f == animate(Heap, 1)
    IN /\ \A p \in Paths :
            (p \in mixers /\ actions[p] # NoAction) =>
               f.heap.actions[p] = ActionUpdate(actions[p], 1)
       /\ f.drawn = render(f.heap)
       /\ f.heap = [Heap EXCEPT !.actions = f.heap.actions]

\* C21 witness: a frame loop is running with a renderer while a loaded model
\* that is hidden has a clip under way, so that the frame advances a model
\* that is not visible and changes the pose that is drawn
C21_Witness ==
  /\ animLoop /\ renderer # 0
  /\ \E p \in Paths : /\ p \in mixers /\ models[p] # 0 /\ actions[p] # NoAction
                      /\ <<models[p], p>> \notin objVisible
                      /\ ~actions[p].paused /\ actions[p].time < ClipLen

\* the extension is one of those the loaders are chosen by
SupportedFormat(path) ==
  \E e \in {DotFbx, DotGlb, DotGltf} : endsWith(toLowerCase(path), e)

\* C22: a call of loadModel with a path that does not end in .fbx, .glb or
\* .gltf (in any case) has ended with the unsupported-format error, whether
\* the file is reachable or not, and has not registered the path.
C22_UnsupportedFormatRejected ==
  (ld.result # "none" /\ ~SupportedFormat(ld.path)) =>
    /\ ld.result = "unsupported"
    /\ ld.path \notin ld.registry

\* C23: when loadTestModels of main.js has ended and the fallback file
\* exists, every entry whose file is missing has an object in the scene at
\* the entry's configured position, and every entry whose file exists has its
\* own model in the scene, whichever entries are the missing ones.
C23_MissingEntryGetsFallback ==
  (mt.pc \in {"done", "failed"} /\ mt.fallback \in mt.present) =>
    \A i \in 1..MtEntries :
      IF i \in mt.present
        THEN <<i, MtPosition(i)>> \in mt.scene
        ELSE \E o \in mt.scene : o[2] = MtPosition(i)

\* C24: when a startAR that loads the test models ends after a Stop has been
\* completed during its loading (the scene is null again) and no other
\* startAR is suspended, the application is stopped: the registry is empty,
\* no interval is active, no reveal timer is pending, Start is enabled and
\* Stop is disabled.
C24_StopDuringLoadEndsStopped ==
  [][ \A r \in RunIds :
        ( /\ pc[r] = "loadTest" /\ scene = 0 /\ nStops > 0
          /\ pc'[r] = "done"
          /\ \A q \in RunIds : pc'[q] \in {"idle", "done"} ) =>
        /\ \A p \in Paths : models'[p] = 0
        /\ cycleTimer' = 0
        /\ \A i \in 1..Len(timers') : timers'[i].kind \notin {"cycle", "show", "spot"}
        /\ ~startDisabled' /\ stopDisabled' ]_vars

\* C25: at most one execution of startAR is suspended at an await at any time.
C25_OneStartInProgress ==
  Cardinality({r \in RunIds : pc[r] \notin {"idle", "done"}}) <= 1

\* C26: ModelManager.resetModels is the original wrapped at most once, and
\* every spotlight timer created since the last Stop belongs to a spotlight of
\* the current session, one timer per spotlight at most.
C26_ResetWrappedOnce ==
  /\ Len(resetChain) <= 1
  /\ \A i \in 1..Len(timers) :
       (timers[i].kind = "spot" /\ timers[i].epoch = nStops) =>
          /\ timers[i].run = scene
          /\ \A j \in 1..Len(timers) :
               (timers[j].kind = "spot" /\ timers[j].run = timers[i].run
                  /\ timers[j].path = timers[i].path /\ timers[j].epoch = nStops)
               => j = i

\* run r is the session that is going on: its test scene is the global scene,
\* or its MindAR engine is running
CurrentSession(r) ==
  \/ scene = r /\ pc[r] \in {"loadTest", "done"}
  \/ mindarThree = r /\ ar[r].engine = "on"

\* C27: in the session that is going on, a visible spotlight has a model that
\* is registered and visible.
C27_SpotlightImpliesModel ==
  \A r \in RunIds : \A p \in Paths :
    (CurrentSession(r) /\ <<r, p>> \in spotVisible) =>
      /\ models[p] # 0
      /\ <<models[p], p>> \in objVisible

\* the step ends an execution of startAR
StartEnds(r) == pc[r] \notin {"idle", "done"} /\ pc'[r] = "done"

\* C28: with the handlers run one after another, after every step that leaves
\* no startAR suspended exactly one of the two buttons is enabled; a startAR
\* that ends in its catch block leaves Start enabled and Stop disabled, every
\* other startAR leaves Start disabled and Stop enabled, and a completed stopAR
\* leaves Start enabled and Stop disabled.
C28_ExactlyOneButtonEnabled ==
  [][ /\ (\A q \in RunIds : pc'[q] \in {"idle", "done"}) =>
           startDisabled' # stopDisabled'
      /\ \A r \in RunIds :
           StartEnds(r) =>
             IF <<r, 0, "declined">> \in failed'
               THEN ~startDisabled' /\ stopDisabled'
               ELSE startDisabled' /\ ~stopDisabled'
      /\ nStops' # nStops => (~startDisabled' /\ stopDisabled') ]_vars

\* C28 witness: after a session that was started and stopped, a second startAR
\* has failed with the fallback declined
C28_Witness ==
  \E r \in RunIds :
    /\ nStops > 0 /\ pc[r] = "done"
    /\ <<r, 0, "declined">> \in failed
    /\ ~startDisabled /\ stopDisabled

\* C29: while the engine of an AR session runs with its handlers installed,
\* the text boxes are visible exactly when the last tracking signal was
\* target-found; and in every such state a target-found leaves them visible
\* and a target-lost leaves them hidden, whether or not the sequence is
\* Running.
C29_TextBoxesFollowTracking ==
  \A r \in RunIds :
    (ar[r].engine = "on" /\ ar[r].handlers) =>
      /\ ar[r].text = ar[r].tracked
      /\ foundAR(ar[r]).text /\ foundAR(ar[r]).tracked
      /\ ~lostAR(ar[r]).text /\ ~lostAR(ar[r]).tracked

\* C29 witness: the target was found, a model was revealed, and the target
\* was lost again: the text boxes are hidden while the session goes on
C29_Witness ==
  \E r \in RunIds :
    /\ ar[r].engine = "on" /\ ar[r].handlers
    /\ ~ar[r].tracked /\ ~ar[r].text
    /\ \E p \in Paths : models[p] = ARObj(r) /\ shown[p] > 0

\* what a click on the toggle-animation button can change
ViewerView(v) == << v.isPlaying, v.label, v.action, v.mixer, v.disabled, v.pc >>

\* C30: in the model viewer, whenever there is an animation action it is
\* paused exactly when isPlaying is false and the label says so; a click
\* while there is no mixer or no action changes nothing; and two clicks in a
\* row give the state before them.
C30_ToggleKeepsFlagActionLabel ==
  /\ viewer.action # NoAction =>
       /\ viewer.action.paused = ~viewer.isPlaying
       /\ viewer.label = IF viewer.isPlaying THEN "Pause Animation"
                         ELSE "Play Animation"
  /\ (~viewer.mixer \/ viewer.action = NoAction) =>
       ViewerView(toggleAnimation(viewer)) = ViewerView(viewer)
  /\ ViewerView(toggleAnimation(toggleAnimation(viewer))) = ViewerView(viewer)

\* C30 witness: clicks were made before the model was loaded and after, and
\* the clip is paused part-way with the label offering to play it
C30_Witness ==
  /\ viewer.clicks >= 3
  /\ viewer.action # NoAction /\ viewer.action.paused /\ viewer.action.time > 0
  /\ ~viewer.isPlaying /\ viewer.label = "Play Animation"

====
